---- MODULE Spec2Model ----
(***************************************************************************)
(* Job-application tracking backend (FastAPI + SQLAlchemy over two SQLite  *)
(* stores): the communication-driven application status rule and the       *)
(* resume master / version-history rules, as state machines over the rows  *)
(* of the applications store and of the resumes store.                     *)
(***************************************************************************)
EXTENDS Integers, Sequences, FiniteSets, TLC

(* ------------------------------ bounds -------------------------------- *)
\* Largest primary key handed out in the applications table.
MaxApplications == 2
\* Largest primary key handed out in the communications table.
MaxCommunications == 2
\* Last reading of the wall clock: at most this many timestamped writes.
MaxClock == 4
\* Largest primary key handed out in the reminders table.
MaxReminders == 2

VARIABLES
    applications,     \* applications table: id -> [status, updated_at]
    communications,   \* communications table: id -> [application_id, type]
    reminders,        \* reminders table: id -> [application_id, is_completed]
    resumes,          \* resumes table (separate store): id -> row
    sessions,         \* set-master requests in flight, one ORM session each
    compiler,         \* the invocation of compile_latex_to_pdf under way
    clock,            \* datetime.now(), strictly increasing between writes
    response          \* the last request served and the answer it got

vars ==
    <<applications, communications, reminders, resumes, sessions, compiler,
      clock, response>>

\* The rows of the applications store and of the resumes store.
applicationsStore == <<applications, communications, reminders>>
resumesStore == <<resumes, sessions>>

(* --------------------------- value domains ---------------------------- *)
\* Application.status as documented on the column.
STATUSES == {"Applied", "Interview", "Offer", "Rejected"}
\* `status: str` accepts any text: one representative outside the list.
AnyStatus == STATUSES \cup {"Withdrawn"}
\* Communication.type as documented on the column.
TYPES == {"Interview Invite", "Rejection", "Offer", "Note", "Follow-up"}
\* `type: str` accepts any text: one representative outside the list.
AnyType == TYPES \cup {"Email"}
\* A field left out of a PATCH body (model_dump(exclude_unset=True)).
Unset == "<unset>"
\* A column or response field that holds no text.
NoText == "<none>"

ApplicationIds == 1 .. MaxApplications
CommunicationIds == 1 .. MaxCommunications
ReminderIds == 1 .. MaxReminders
\* `application_id: int` of a reminder: the ids in use and one never handed out.
AnyApplicationId == 1 .. MaxApplications + 1
\* PATCH bodies of a reminder: a message alone, or is_completed = true.
ReminderUpdates == {[message |-> "call back"], [is_completed |-> TRUE]}

(* ------------------------------ helpers ------------------------------- *)
\* dict.get(key, default)
DictGet(d, key, default) == IF key \in DOMAIN d THEN d[key] ELSE default

\* INTEGER PRIMARY KEY of a new row: one more than the largest rowid in use.
NextId(table) ==
    IF DOMAIN table = {} THEN 1
    ELSE (CHOOSE m \in DOMAIN table : \A k \in DOMAIN table : k <= m) + 1

\* The table without row id (db.delete + commit).
DeleteRow(table, id) == [k \in DOMAIN table \ {id} |-> table[k]]

\* What a handler answers: the route, the HTTP status and the entity's id;
\* body is the file sent with an upload or returned by a download, responses
\* the communication types a tracking summary counts; streak is 2 when the request before it was the same route and id with the
\* same status (the same call made twice in a row).
Resp(op, code, id) ==
    [op |-> op, code |-> code, id |-> id, application_id |-> 0,
     new_resume_id |-> 0, type |-> NoText, status |-> NoText,
     updated_at |-> 0, masters |-> {}, body |-> NoText, responses |-> {},
     streak |-> IF response.op = op /\ response.code = code /\ response.id = id
                THEN 2 ELSE 1]

(* ------------------------- status rule engine ------------------------- *)
COMMUNICATION_TO_STATUS ==
    [t \in {"Interview Invite", "Rejection", "Offer"} |->
        CASE t = "Interview Invite" -> "Interview"
          [] t = "Rejection" -> "Rejected"
          [] t = "Offer" -> "Offer"]

\* Mutation: the ranks of Interview and Offer exchanged.
status_priority_swapped ==
    [s \in STATUSES |->
        CASE s = "Applied" -> 1
          [] s = "Interview" -> 3
          [] s = "Offer" -> 2
          [] s = "Rejected" -> 0]

status_priority ==
    [s \in STATUSES |->
        CASE s = "Applied" -> 1
          [] s = "Interview" -> 2
          [] s = "Offer" -> 3
          [] s = "Rejected" -> 0]

\* Mutation: the target status is written whatever its rank.
update_application_status_no_rank(apps, application_id, communication_type, now) ==
    IF application_id \notin DOMAIN apps THEN apps
    ELSE
        LET new_status ==
                DictGet(COMMUNICATION_TO_STATUS, communication_type, NoText)
        IN  IF new_status = NoText THEN apps
            ELSE [apps EXCEPT ![application_id].status = new_status,
                              ![application_id].updated_at = now]

\* Mutation: no exception for Rejected, only a strictly higher rank applies.
update_application_status_no_override(apps, application_id, communication_type, now) ==
    IF application_id \notin DOMAIN apps THEN apps
    ELSE
        LET new_status ==
                DictGet(COMMUNICATION_TO_STATUS, communication_type, NoText)
        IN  IF new_status = NoText THEN apps
            ELSE
                LET current_priority ==
                        DictGet(status_priority, apps[application_id].status, 0)
                    new_priority == DictGet(status_priority, new_status, 0)
                IN  IF new_priority > current_priority
                    THEN [apps EXCEPT ![application_id].status = new_status,
                                      ![application_id].updated_at = now]
                    ELSE apps

\* Mutation: the status is written but updated_at is not bumped.
update_application_status_no_bump(apps, application_id, communication_type, now) ==
    IF application_id \notin DOMAIN apps THEN apps
    ELSE
        LET new_status ==
                DictGet(COMMUNICATION_TO_STATUS, communication_type, NoText)
        IN  IF new_status = NoText THEN apps
            ELSE
                LET current_priority ==
                        DictGet(status_priority, apps[application_id].status, 0)
                    new_priority == DictGet(status_priority, new_status, 0)
                IN  IF new_status = "Rejected" \/ new_priority > current_priority
                    THEN [apps EXCEPT ![application_id].status = new_status]
                    ELSE apps

\* Mutation: a target of equal rank applies as well.
update_application_status_ties_apply(apps, application_id, communication_type, now) ==
    IF application_id \notin DOMAIN apps THEN apps
    ELSE
        LET new_status ==
                DictGet(COMMUNICATION_TO_STATUS, communication_type, NoText)
        IN  IF new_status = NoText THEN apps
            ELSE
                LET current_priority ==
                        DictGet(status_priority, apps[application_id].status, 0)
                    new_priority == DictGet(status_priority, new_status, 0)
                IN  IF new_status = "Rejected" \/ new_priority >= current_priority
                    THEN [apps EXCEPT ![application_id].status = new_status,
                                      ![application_id].updated_at = now]
                    ELSE apps

\* The applications table after update_application_status ran at time now.
update_application_status(apps, application_id, communication_type, now) ==
    IF application_id \notin DOMAIN apps THEN apps
    ELSE
        LET new_status ==
                DictGet(COMMUNICATION_TO_STATUS, communication_type, NoText)
        IN  IF new_status = NoText THEN apps
            ELSE
                LET current_priority ==
                        DictGet(status_priority, apps[application_id].status, 0)
                    new_priority == DictGet(status_priority, new_status, 0)
                IN  IF new_status = "Rejected" \/ new_priority > current_priority
                    THEN [apps EXCEPT ![application_id].status = new_status,
                                      ![application_id].updated_at = now]
                    ELSE apps

(* ----------------------- applications endpoints ----------------------- *)
get_application(application_id) ==
    /\ response' =
        IF application_id \in DOMAIN applications
        THEN [Resp("get_application", 200, application_id) EXCEPT
                 !.application_id = application_id,
                 !.status = applications[application_id].status,
                 !.updated_at = applications[application_id].updated_at]
        ELSE Resp("get_application", 404, application_id)
    /\ UNCHANGED <<applicationsStore, resumesStore, clock, compiler>>

create_application(status) ==
    LET id == NextId(applications) IN
    /\ id <= MaxApplications
    /\ clock < MaxClock
    /\ applications' =
        applications @@ (id :> [status |-> status, updated_at |-> clock])
    /\ clock' = clock + 1
    /\ response' = [Resp("create_application", 201, id) EXCEPT
                       !.application_id = id, !.status = status,
                       !.updated_at = clock]
    /\ UNCHANGED <<communications, reminders, resumesStore, compiler>>

update_application(application_id, status) ==
    IF application_id \notin DOMAIN applications
    THEN /\ response' = Resp("update_application", 404, application_id)
         /\ UNCHANGED <<applicationsStore, resumesStore, clock, compiler>>
    ELSE LET new_status == IF status = Unset
                           THEN applications[application_id].status
                           ELSE status
         IN
         /\ clock < MaxClock
         /\ applications' =
             [applications EXCEPT ![application_id].status = new_status,
                                  ![application_id].updated_at = clock]
         /\ clock' = clock + 1
         /\ response' = [Resp("update_application", 200, application_id) EXCEPT
                            !.application_id = application_id,
                            !.status = new_status, !.updated_at = clock]
         /\ UNCHANGED <<communications, reminders, resumesStore, compiler>>

\* The rows of a child table that do not belong to application_id.
RowsOfOthers(table, application_id) ==
    [c \in {k \in DOMAIN table : table[k].application_id # application_id}
        |-> table[c]]

\* Mutation: the communications relationship without its delete cascade.
delete_application_keeps_communications(application_id) ==
    IF application_id \notin DOMAIN applications
    THEN /\ response' = Resp("delete_application", 404, application_id)
         /\ UNCHANGED <<applicationsStore, resumesStore, clock, compiler>>
    ELSE /\ applications' = DeleteRow(applications, application_id)
         /\ reminders' = RowsOfOthers(reminders, application_id)
         /\ response' = [Resp("delete_application", 204, application_id) EXCEPT
                            !.application_id = application_id]
         /\ UNCHANGED <<communications, resumesStore, clock, compiler>>

\* Mutation: the reminders relationship without its delete cascade.
delete_application_keeps_reminders(application_id) ==
    IF application_id \notin DOMAIN applications
    THEN /\ response' = Resp("delete_application", 404, application_id)
         /\ UNCHANGED <<applicationsStore, resumesStore, clock, compiler>>
    ELSE /\ applications' = DeleteRow(applications, application_id)
         /\ communications' = RowsOfOthers(communications, application_id)
         /\ response' = [Resp("delete_application", 204, application_id) EXCEPT
                            !.application_id = application_id]
         /\ UNCHANGED <<reminders, resumesStore, clock, compiler>>

\* cascade="all, delete-orphan" on both relationships: the application's
\* communications and reminders go with it.
delete_application(application_id) ==
    IF application_id \notin DOMAIN applications
    THEN /\ response' = Resp("delete_application", 404, application_id)
         /\ UNCHANGED <<applicationsStore, resumesStore, clock, compiler>>
    ELSE /\ applications' = DeleteRow(applications, application_id)
         /\ communications' = RowsOfOthers(communications, application_id)
         /\ reminders' = RowsOfOthers(reminders, application_id)
         /\ response' = [Resp("delete_application", 204, application_id) EXCEPT
                            !.application_id = application_id]
         /\ UNCHANGED <<resumesStore, clock, compiler>>

(* ---------------------- communications endpoints ---------------------- *)
create_communication(application_id, type) ==
    IF application_id \notin DOMAIN applications
    THEN /\ response' = Resp("create_communication", 404, 0)
         /\ UNCHANGED <<applicationsStore, resumesStore, clock, compiler>>
    ELSE LET id == NextId(communications) IN
         /\ id <= MaxCommunications
         /\ clock < MaxClock
         /\ communications' =
             communications @@
                 (id :> [application_id |-> application_id, type |-> type])
         /\ applications' =
             update_application_status(applications, application_id, type, clock)
         /\ clock' = clock + 1
         /\ response' = [Resp("create_communication", 201, id) EXCEPT
                            !.application_id = application_id, !.type = type]
         /\ UNCHANGED <<reminders, resumesStore, compiler>>

\* Mutation: the rule is run with the type the communication had before.
update_communication_old_type(communication_id, type) ==
    IF communication_id \notin DOMAIN communications
    THEN /\ response' = Resp("update_communication", 404, communication_id)
         /\ UNCHANGED <<applicationsStore, resumesStore, clock, compiler>>
    ELSE LET db_communication ==
                 IF type = Unset THEN communications[communication_id]
                 ELSE [communications[communication_id] EXCEPT !.type = type]
         IN
         /\ clock < MaxClock
         /\ communications' =
             [communications EXCEPT ![communication_id] = db_communication]
         /\ applications' =
             IF type # Unset
             THEN update_application_status(applications,
                      db_communication.application_id,
                      communications[communication_id].type, clock)
             ELSE applications
         /\ clock' = clock + 1
         /\ response' = [Resp("update_communication", 200, communication_id)
                            EXCEPT
                            !.application_id = db_communication.application_id,
                            !.type = type]
         /\ UNCHANGED <<reminders, resumesStore, compiler>>

\* type is Unset when the PATCH body carries no "type" key.
update_communication(communication_id, type) ==
    IF communication_id \notin DOMAIN communications
    THEN /\ response' = Resp("update_communication", 404, communication_id)
         /\ UNCHANGED <<applicationsStore, resumesStore, clock, compiler>>
    ELSE LET db_communication ==
                 IF type = Unset THEN communications[communication_id]
                 ELSE [communications[communication_id] EXCEPT !.type = type]
         IN
         /\ clock < MaxClock
         /\ communications' =
             [communications EXCEPT ![communication_id] = db_communication]
         /\ applications' =
             IF type # Unset
             THEN update_application_status(applications,
                      db_communication.application_id,
                      db_communication.type, clock)
             ELSE applications
         /\ clock' = clock + 1
         /\ response' = [Resp("update_communication", 200, communication_id)
                            EXCEPT
                            !.application_id = db_communication.application_id,
                            !.type = type]
         /\ UNCHANGED <<reminders, resumesStore, compiler>>

\* Mutation: the status of the owning application is derived again from the
\* communications that remain.
delete_communication_rederives(communication_id) ==
    IF communication_id \notin DOMAIN communications
    THEN /\ response' = Resp("delete_communication", 404, communication_id)
         /\ UNCHANGED <<applicationsStore, resumesStore, clock, compiler>>
    ELSE LET owner == communications[communication_id].application_id
             remaining == DeleteRow(communications, communication_id)
             mapped == {COMMUNICATION_TO_STATUS[remaining[c].type] :
                           c \in {k \in DOMAIN remaining :
                                     /\ remaining[k].application_id = owner
                                     /\ remaining[k].type \in
                                            DOMAIN COMMUNICATION_TO_STATUS}}
             derived == IF mapped = {} THEN "Applied"
                        ELSE CHOOSE st \in mapped : \A o \in mapped :
                                 status_priority[st] >= status_priority[o]
         IN
         /\ communications' = remaining
         /\ applications' =
               IF owner \in DOMAIN applications
               THEN [applications EXCEPT ![owner].status = derived]
               ELSE applications
         /\ response' =
             [Resp("delete_communication", 204, communication_id) EXCEPT
                 !.application_id = owner]
         /\ UNCHANGED <<reminders, resumesStore, clock, compiler>>

delete_communication(communication_id) ==
    IF communication_id \notin DOMAIN communications
    THEN /\ response' = Resp("delete_communication", 404, communication_id)
         /\ UNCHANGED <<applicationsStore, resumesStore, clock, compiler>>
    ELSE /\ communications' = DeleteRow(communications, communication_id)
         /\ response' =
             [Resp("delete_communication", 204, communication_id) EXCEPT
                 !.application_id =
                     communications[communication_id].application_id]
         /\ UNCHANGED <<applications, reminders, resumesStore, clock, compiler>>

\* GET /tracking/summary?application_id=: one SELECT joining the application
\* with its communications: the status and the types it counts.
get_response_tracking_summary(application_id) ==
    /\ application_id \in DOMAIN applications
    /\ response' =
        [Resp("get_response_tracking_summary", 200, application_id) EXCEPT
            !.application_id = application_id,
            !.status = applications[application_id].status,
            !.responses =
                {communications[c].type : c \in
                    {k \in DOMAIN communications :
                        /\ communications[k].application_id = application_id
                        /\ communications[k].type \in
                               {"Interview Invite", "Rejection", "Offer"}}}]
    /\ UNCHANGED <<applicationsStore, resumesStore, clock, compiler>>

(* --------- create_communication, one session per request -------------- *)
\* A request of the applications API not yet started.
IdleRequest ==
    [pc |-> "idle", application_id |-> 0, type |-> NoText, id |-> 0,
     status |-> NoText]

\* The existence check: db.query(Application)...first()
cc_query_application(s, application_id, type) ==
    /\ sessions[s].pc = "idle"
    /\ IF application_id \notin DOMAIN applications
       THEN /\ response' = Resp("create_communication", 404, 0)
            /\ UNCHANGED sessions
       ELSE /\ sessions' = [sessions EXCEPT ![s] =
                   [IdleRequest EXCEPT !.pc = "checked",
                                       !.application_id = application_id,
                                       !.type = type]]
            /\ UNCHANGED response
    /\ UNCHANGED <<applicationsStore, resumes, clock, compiler>>

\* db.add(db_communication); db.commit(); db.refresh(db_communication)
cc_commit_communication(s) ==
    LET id == NextId(communications) IN
    /\ sessions[s].pc = "checked"
    /\ id <= MaxCommunications
    /\ communications' =
        communications @@
            (id :> [application_id |-> sessions[s].application_id,
                    type |-> sessions[s].type])
    /\ sessions' = [sessions EXCEPT ![s].pc = "inserted", ![s].id = id]
    /\ UNCHANGED <<applications, reminders, resumes, clock, compiler, response>>

\* update_application_status up to its `if`: the application is read again
\* (the first commit expired it) and the rule is evaluated on what was
\* read; when nothing is to be written the request is answered.
cc_query_status(s) ==
    LET a == sessions[s].application_id
        now_read == applications[a].status
        decided == update_application_status(applications, a,
                                             sessions[s].type, clock)
    IN
    /\ sessions[s].pc = "inserted"
    /\ a \in DOMAIN applications
    /\ IF decided = applications
       THEN /\ sessions' = [sessions EXCEPT ![s] = IdleRequest]
            /\ response' =
                   [Resp("create_communication", 201, sessions[s].id) EXCEPT
                       !.application_id = a, !.type = sessions[s].type]
       ELSE /\ sessions' = [sessions EXCEPT ![s].pc = "decided",
                                            ![s].status = now_read]
            /\ UNCHANGED response
    /\ UNCHANGED <<applicationsStore, resumes, clock, compiler>>

\* Mutation: the commit evaluates the rule on the status stored by then.
cc_commit_status_rereads(s) ==
    LET a == sessions[s].application_id IN
    /\ sessions[s].pc = "decided"
    /\ clock < MaxClock
    /\ applications' =
        update_application_status(applications, a, sessions[s].type, clock)
    /\ clock' = clock + 1
    /\ sessions' = [sessions EXCEPT ![s] = IdleRequest]
    /\ response' = [Resp("create_communication", 201, sessions[s].id) EXCEPT
                       !.application_id = a, !.type = sessions[s].type]
    /\ UNCHANGED <<communications, reminders, resumes, compiler>>

\* application.status = new_status; application.updated_at = now;
\* db.commit(): the UPDATE writes what was decided on the status read.
cc_commit_status(s) ==
    LET a == sessions[s].application_id IN
    /\ sessions[s].pc = "decided"
    /\ clock < MaxClock
    /\ applications' =
        [applications EXCEPT
            ![a].status = COMMUNICATION_TO_STATUS[sessions[s].type],
            ![a].updated_at = clock]
    /\ clock' = clock + 1
    /\ sessions' = [sessions EXCEPT ![s] = IdleRequest]
    /\ response' = [Resp("create_communication", 201, sessions[s].id) EXCEPT
                       !.application_id = a, !.type = sessions[s].type]
    /\ UNCHANGED <<communications, reminders, resumes, compiler>>

(* ------------------------- reminders endpoints ------------------------ *)
\* No check that the application exists, and no foreign-key enforcement.
create_reminder(application_id, is_completed) ==
    LET id == NextId(reminders) IN
    /\ id <= MaxReminders
    /\ reminders' =
        reminders @@ (id :> [application_id |-> application_id,
                             is_completed |-> is_completed])
    /\ response' = [Resp("create_reminder", 200, id) EXCEPT
                       !.application_id = application_id]
    /\ UNCHANGED <<applications, communications, resumesStore, clock, compiler>>

\* update_data is model_dump(exclude_unset=True): the keys the body carries.
update_reminder(reminder_id, update_data) ==
    IF reminder_id \notin DOMAIN reminders
    THEN /\ response' = Resp("update_reminder", 404, reminder_id)
         /\ UNCHANGED <<applicationsStore, resumesStore, clock, compiler>>
    ELSE /\ reminders' =
             [reminders EXCEPT ![reminder_id].is_completed =
                 DictGet(update_data, "is_completed", @)]
         /\ response' = [Resp("update_reminder", 200, reminder_id) EXCEPT
                            !.application_id =
                                reminders[reminder_id].application_id]
         /\ UNCHANGED <<applications, communications, resumesStore, clock,
                        compiler>>

delete_reminder(reminder_id) ==
    IF reminder_id \notin DOMAIN reminders
    THEN /\ response' = Resp("delete_reminder", 404, reminder_id)
         /\ UNCHANGED <<applicationsStore, resumesStore, clock, compiler>>
    ELSE /\ reminders' = DeleteRow(reminders, reminder_id)
         /\ response' = [Resp("delete_reminder", 204, reminder_id) EXCEPT
                            !.application_id =
                                reminders[reminder_id].application_id]
         /\ UNCHANGED <<applications, communications, resumesStore, clock,
                        compiler>>

(* ============================ resumes store =========================== *)
\* Largest primary key handed out in the resumes table.
MaxResumes == 2
\* Concurrent set-master requests.
MaxSessions == 2
\* 10 * 1024 * 1024 bytes.
UploadLimit == 10485760

ResumeIds == 1 .. MaxResumes
Sessions == 1 .. MaxSessions

\* Resume.content values: the empty JSON object and two filled ones.
EmptyContent == "{}"
Contents == {EmptyContent, "content A", "content B"}
\* The placeholder content of an uploaded resume (a dict with seven keys).
minimal_content == "minimal content"
\* JSON null sent for a field of a PATCH body.
Null == "null"
\* A call of an external service that raised.
Raised == "<raised>"

\* Python truthiness of None, "", b"" and {}.
Truthy(v) == v \notin {NoText, "", EmptyContent}

\* One element of version_history.
HistoryEntry(now, content) == [timestamp |-> now, content |-> content]
\* version_history values a client may post with a new resume.
ClientHistories == {<<>>, <<HistoryEntry(0, "content B")>>}

valid_types ==
    {"application/pdf",
     "application/vnd.openxmlformats-officedocument.wordprocessingml.document",
     "application/x-tex", "application/x-latex", "text/x-tex", "text/plain"}
\* Declared content types of uploads: a PDF, another allowed type, a refused one.
UploadTypes == {"application/pdf", "text/plain", "image/png"}
\* 'tex' in file_type.lower(), on the content types a row can hold.
ContainsTex(file_type) ==
    file_type \in {"application/x-tex", "application/x-latex", "text/x-tex",
                   "text/plain"}

\* Uploaded bodies: an empty file, a small one, one beyond the limit.
UploadFiles == {"", "%PDF-small", "%PDF-huge"}
\* len(file_content)
FileSize(file_content) ==
    CASE file_content = "" -> 0
      [] file_content = "%PDF-small" -> 10
      [] file_content = "%PDF-huge" -> UploadLimit + 1

\* str.encode('utf-8'): the bytes of a text.
Encode(text) == IF text = "" THEN "" ELSE "utf-8:" \o text

\* Results of the PDF-to-LaTeX gateway: None, an empty text, a document.
ConversionResults == {NoText, Raised, "", "\\documentclass{article}"}
\* The conversion failed: it returned None or raised.
ConversionFailures == {NoText, Raised}
\* Results of the template-blending gateway.
BlendResults == {NoText, "\\documentclass{blended}"}
\* Results of the PDF compilation gateway.
CompileResults == {NoText, "%PDF-compiled"}
\* Texts posted to PATCH /{resume_id}/file.
LatexTexts == {"", "\\documentclass{edited}"}

available_templates == {"template-1", "template-2", "template-3"}
\* Template ids a client sends: a registered one and an unknown one.
TemplateIds == {"template-1", "template-9"}

\* Mutation: the row is stored without the link to the resume it derives from.
ResumeRow_unlinked(is_master, master_resume_id, content, version_history, file_data, file_type, latex_content, now) ==
    [is_master |-> is_master, master_resume_id |-> 0,
     content |-> content, version_history |-> version_history,
     file_data |-> file_data, file_type |-> file_type,
     latex_content |-> latex_content, updated_at |-> now]

ResumeRow(is_master, master_resume_id, content, version_history, file_data, file_type, latex_content, now) ==
    [is_master |-> is_master, master_resume_id |-> master_resume_id,
     content |-> content, version_history |-> version_history,
     file_data |-> file_data, file_type |-> file_type,
     latex_content |-> latex_content, updated_at |-> now]

\* The ids of the rows with is_master = true.
Masters(store) == {r \in DOMAIN store : store[r].is_master}

\* Query.first() without ORDER BY: any matching row, or None (0).
FirstOrNone(rows) == IF rows = {} THEN {0} ELSE rows

\* Mutation: the row found is left as it is.
ClearMaster_noop(store, existing_master, now) == store

\* `if existing_master: existing_master.is_master = False`, as flushed:
\* the UPDATE also stamps updated_at (onupdate=func.now()).
ClearMaster(store, existing_master, now) ==
    IF existing_master \in DOMAIN store
    THEN [store EXCEPT ![existing_master].is_master = FALSE,
                       ![existing_master].updated_at = now]
    ELSE store

\* Mutation: a value changed in place is written as well.
Flush_tracks_mutations(row, obj, dirty) == obj

\* Session.flush: the UPDATE writes the attributes that received a set event
\* (dirty); a JSON value changed in place is not among them.
Flush(row, obj, dirty) ==
    [col \in DOMAIN row |-> IF col \in dirty THEN obj[col] ELSE row[col]]

\* Mutation: the target is flagged, the other master is not cleared.
CommitSetMaster_no_clear(store, resume_id, loaded_is_master, existing_master, now) ==
    [store EXCEPT ![resume_id].is_master = TRUE, ![resume_id].updated_at = now]

\* Mutation: the flag of the target is toggled instead of set.
CommitSetMaster_toggle(store, resume_id, loaded_is_master, existing_master, now) ==
    LET cleared == ClearMaster(store, existing_master, now)
    IN  [cleared EXCEPT ![resume_id].is_master = ~loaded_is_master,
                        ![resume_id].updated_at = now]

\* The commit of set_master_resume: the session writes is_master = False to
\* the master it read, and to the target is_master = True (when that differs
\* from what it loaded) and updated_at.
CommitSetMaster(store, resume_id, loaded_is_master, existing_master, now) ==
    LET cleared == ClearMaster(store, existing_master, now)
    IN  [cleared EXCEPT
            ![resume_id].is_master = IF loaded_is_master THEN @ ELSE TRUE,
            ![resume_id].updated_at = now]

\* Mutation: the LaTeX of the original resume is not checked.
HasLatex_unchecked(row) == TRUE

\* `if not original_resume.latex_content` is false.
HasLatex(row) == Truthy(row.latex_content)

\* The response body's view of one resume row.
ResumeResp(op, code, id, row) ==
    [Resp(op, code, id) EXCEPT
        !.updated_at = row.updated_at,
        !.masters = IF row.is_master THEN {id} ELSE {}]

(* -------------------------- resumes endpoints ------------------------- *)
get_resumes ==
    /\ response' = [Resp("get_resumes", 200, 0) EXCEPT
                       !.masters = Masters(resumes)]
    /\ UNCHANGED <<applicationsStore, resumesStore, clock, compiler>>

create_resume(is_master, content, version_history) ==
    LET id == NextId(resumes) IN
    /\ id <= MaxResumes
    /\ clock < MaxClock
    /\ \E existing_master \in FirstOrNone(Masters(resumes)) :
          LET kept == IF is_master
                      THEN ClearMaster(resumes, existing_master, clock)
                      ELSE resumes
              db_resume == ResumeRow(is_master, 0, content, version_history,
                                     NoText, NoText, NoText, clock)
          IN  /\ resumes' = kept @@ (id :> db_resume)
              /\ response' = ResumeResp("create_resume", 201, id, db_resume)
    /\ clock' = clock + 1
    /\ UNCHANGED <<applicationsStore, sessions, compiler>>

\* Mutation: whatever the conversion ended with is saved as the LaTeX.
ConvertedLatex_unguarded(content_type, file_content, conversion) ==
    IF content_type = "application/pdf" /\ Truthy(file_content)
    THEN conversion
    ELSE NoText

\* The LaTeX saved after the row is committed: the conversion runs for a
\* non-empty PDF inside try/except, and only a non-empty result is saved.
ConvertedLatex(content_type, file_content, conversion) ==
    IF /\ content_type = "application/pdf"
       /\ Truthy(file_content)
       /\ conversion # Raised
       /\ Truthy(conversion)
    THEN conversion
    ELSE NoText

\* Mutation: the size of the file is not checked.
UploadRefused_type_only(content_type, file_content) ==
    content_type \notin valid_types

\* The two checks that end upload_resume with HTTPException(400).
UploadRefused(content_type, file_content) ==
    content_type \notin valid_types \/ FileSize(file_content) > UploadLimit

upload_resume(content_type, file_content, is_master, conversion) ==
    IF UploadRefused(content_type, file_content)
    THEN /\ response' = [Resp("upload_resume", 400, 0) EXCEPT
                            !.type = content_type, !.body = file_content]
         /\ UNCHANGED <<applicationsStore, resumesStore, clock, compiler>>
    ELSE LET id == NextId(resumes) IN
         /\ id <= MaxResumes
         /\ clock < MaxClock
         /\ \E existing_master \in FirstOrNone(Masters(resumes)) :
               LET kept == IF is_master
                           THEN ClearMaster(resumes, existing_master, clock)
                           ELSE resumes
                   latex_content ==
                       ConvertedLatex(content_type, file_content, conversion)
                   db_resume ==
                       ResumeRow(is_master, 0, minimal_content,
                                 <<HistoryEntry(clock, "File uploaded")>>,
                                 file_content, content_type, latex_content,
                                 clock)
               IN  /\ resumes' = kept @@ (id :> db_resume)
                   /\ response' =
                       [ResumeResp("upload_resume", 201, id, db_resume) EXCEPT
                           !.type = content_type, !.body = file_content]
         /\ clock' = clock + 1
         /\ UNCHANGED <<applicationsStore, sessions, compiler>>

\* `if not resume.file_data` holds for NULL and for zero bytes alike.
get_resume_file(resume_id) ==
    /\ response' =
        IF resume_id \notin DOMAIN resumes
        THEN Resp("get_resume_file", 404, resume_id)
        ELSE IF ~Truthy(resumes[resume_id].file_data)
        THEN Resp("get_resume_file", 404, resume_id)
        ELSE [Resp("get_resume_file", 200, resume_id) EXCEPT
                 !.body = resumes[resume_id].file_data,
                 !.type = IF Truthy(resumes[resume_id].file_type)
                          THEN resumes[resume_id].file_type
                          ELSE "application/pdf"]
    /\ UNCHANGED <<applicationsStore, resumesStore, clock, compiler>>

update_resume_file(resume_id, latex_content) ==
    IF resume_id \notin DOMAIN resumes
    THEN /\ response' = Resp("update_resume_file", 404, resume_id)
         /\ UNCHANGED <<applicationsStore, resumesStore, clock, compiler>>
    ELSE LET row == resumes[resume_id]
             file_type == IF Truthy(row.file_type) /\ ContainsTex(row.file_type)
                          THEN row.file_type
                          ELSE "application/x-tex"
         IN
         /\ clock < MaxClock
         /\ resumes' = [resumes EXCEPT
                           ![resume_id].file_data = Encode(latex_content),
                           ![resume_id].latex_content = latex_content,
                           ![resume_id].file_type = file_type,
                           ![resume_id].updated_at = clock]
         /\ clock' = clock + 1
         /\ response' = [Resp("update_resume_file", 200, resume_id) EXCEPT
                            !.type = file_type]
         /\ UNCHANGED <<applicationsStore, sessions, compiler>>

set_master_resume(resume_id) ==
    IF resume_id \notin DOMAIN resumes
    THEN /\ response' = Resp("set_master_resume", 404, resume_id)
         /\ UNCHANGED <<applicationsStore, resumesStore, clock, compiler>>
    ELSE /\ clock < MaxClock
         /\ \E existing_master \in
                   FirstOrNone(Masters(resumes) \ {resume_id}) :
               resumes' = CommitSetMaster(resumes, resume_id,
                              resumes[resume_id].is_master, existing_master,
                              clock)
         /\ clock' = clock + 1
         /\ response' = ResumeResp("set_master_resume", 200, resume_id,
                                   resumes'[resume_id])
         /\ UNCHANGED <<applicationsStore, sessions, compiler>>

unset_master_resume(resume_id) ==
    IF resume_id \notin DOMAIN resumes
    THEN /\ response' = Resp("unset_master_resume", 404, resume_id)
         /\ UNCHANGED <<applicationsStore, resumesStore, clock, compiler>>
    ELSE /\ clock < MaxClock
         /\ resumes' = [resumes EXCEPT ![resume_id].is_master = FALSE,
                                       ![resume_id].updated_at = clock]
         /\ clock' = clock + 1
         /\ response' = ResumeResp("unset_master_resume", 200, resume_id,
                                   resumes'[resume_id])
         /\ UNCHANGED <<applicationsStore, sessions, compiler>>

\* content is Unset when the PATCH body carries no "content" key (a body
\* with the name alone), Null when it carries JSON null.
update_resume(resume_id, content) ==
    IF resume_id \notin DOMAIN resumes
    THEN /\ response' = Resp("update_resume", 404, resume_id)
         /\ UNCHANGED <<applicationsStore, resumesStore, clock, compiler>>
    ELSE IF content = Null
    THEN \* content is NOT NULL: the commit raises and nothing is written
         /\ response' = Resp("update_resume", 500, resume_id)
         /\ UNCHANGED <<applicationsStore, resumesStore, clock, compiler>>
    ELSE LET row == resumes[resume_id]
             appended ==
                 IF Truthy(row.content)
                 THEN Append(row.version_history,
                             HistoryEntry(clock, row.content))
                 ELSE row.version_history
             db_resume ==
                 [row EXCEPT !.version_history = appended,
                             !.content = IF content = Unset THEN @ ELSE content,
                             !.updated_at = clock]
             dirty == (IF content = Unset THEN {} ELSE {"content"})
                          \cup {"updated_at"}
         IN
         /\ clock < MaxClock
         /\ resumes' = [resumes EXCEPT
                           ![resume_id] = Flush(row, db_resume, dirty)]
         /\ clock' = clock + 1
         /\ response' = ResumeResp("update_resume", 200, resume_id,
                                   resumes'[resume_id])
         /\ UNCHANGED <<applicationsStore, sessions, compiler>>

\* The backref derived_resumes has no delete cascade: the rows derived from
\* the deleted one get master_resume_id = NULL.
delete_resume(resume_id) ==
    IF resume_id \notin DOMAIN resumes
    THEN /\ response' = Resp("delete_resume", 404, resume_id)
         /\ UNCHANGED <<applicationsStore, resumesStore, clock, compiler>>
    ELSE /\ clock < MaxClock
         /\ resumes' =
             [r \in DOMAIN resumes \ {resume_id} |->
                 IF resumes[r].master_resume_id = resume_id
                 THEN [resumes[r] EXCEPT !.master_resume_id = 0,
                                         !.updated_at = clock]
                 ELSE resumes[r]]
         /\ clock' = clock + 1
         /\ response' = Resp("delete_resume", 204, resume_id)
         /\ UNCHANGED <<applicationsStore, sessions, compiler>>

\* log_written: whether the debug log file of the handler can be opened.
apply_template(resume_id, template_id, blended_latex, pdf_bytes, log_written) ==
    IF resume_id \notin DOMAIN resumes
    THEN /\ response' = Resp("apply_template", 404, resume_id)
         /\ UNCHANGED <<applicationsStore, resumesStore, clock, compiler>>
    ELSE IF ~HasLatex(resumes[resume_id]) \/ template_id \notin available_templates
    THEN /\ response' = [Resp("apply_template", 400, resume_id) EXCEPT
                            !.type = template_id]
         /\ UNCHANGED <<applicationsStore, resumesStore, clock, compiler>>
    ELSE IF ~Truthy(blended_latex) \/ ~log_written
    THEN /\ response' = [Resp("apply_template", 500, resume_id) EXCEPT
                            !.type = template_id]
         /\ UNCHANGED <<applicationsStore, resumesStore, clock, compiler>>
    ELSE LET id == NextId(resumes)
             original_resume == resumes[resume_id]
             new_resume ==
                 ResumeRow(FALSE, resume_id, original_resume.content,
                           <<HistoryEntry(clock, "Template applied")>>,
                           pdf_bytes,
                           IF Truthy(pdf_bytes) THEN "application/pdf"
                           ELSE NoText,
                           blended_latex, clock)
         IN
         /\ id <= MaxResumes
         /\ clock < MaxClock
         /\ resumes' = resumes @@ (id :> new_resume)
         /\ clock' = clock + 1
         /\ response' = [ResumeResp("apply_template", 200, resume_id, new_resume)
                            EXCEPT !.type = template_id, !.new_resume_id = id]
         /\ UNCHANGED <<applicationsStore, sessions, compiler>>

(* ------------------------ compile_latex_to_pdf ------------------------ *)
\* The compilation services, in the order of the list the loop walks.
services == <<"_compile_with_latexonline", "_compile_with_ytotech">>

\* What one call of a service yields: None, an exception, a response with
\* an empty body, a PDF.
ServiceOutcomes(service) == {NoText, Raised, "", "%PDF by " \o service}

\* LaTeX sources handed to the compiler.
LatexSources == {"\\documentclass{article}", "\\documentclass{blended}"}

IdleCompiler ==
    [pc |-> "idle", latex_content |-> NoText, next |-> 1, calls |-> <<>>,
     result |-> NoText]

\* The function is entered: the loop starts at the head of the list.
compile_entry(latex_content) ==
    /\ compiler.pc = "idle"
    /\ compiler' = [IdleCompiler EXCEPT !.pc = "loop",
                                        !.latex_content = latex_content]
    /\ UNCHANGED <<applicationsStore, resumesStore, clock, response>>

\* Mutation: no `except` around the call, an exception leaves the function.
compile_try_service_uncaught(outcome) ==
    /\ compiler.pc = "loop"
    /\ compiler.next <= Len(services)
    /\ outcome \in ServiceOutcomes(services[compiler.next])
    /\ LET called == Append(compiler.calls,
                            [service |-> services[compiler.next],
                             outcome |-> outcome])
       IN  compiler' =
               IF outcome = Raised
               THEN [compiler EXCEPT !.calls = called, !.pc = "raised"]
               ELSE IF Truthy(outcome)
               THEN [compiler EXCEPT !.calls = called, !.pc = "return",
                                     !.result = outcome]
               ELSE [compiler EXCEPT !.calls = called, !.next = @ + 1]
    /\ UNCHANGED <<applicationsStore, resumesStore, clock, response>>

\* One turn of `for service in services`: the call, `if result: return
\* result`, and `except Exception: continue`.
compile_try_service(outcome) ==
    /\ compiler.pc = "loop"
    /\ compiler.next <= Len(services)
    /\ outcome \in ServiceOutcomes(services[compiler.next])
    /\ LET called == Append(compiler.calls,
                            [service |-> services[compiler.next],
                             outcome |-> outcome])
       IN  compiler' =
               IF outcome # Raised /\ Truthy(outcome)
               THEN [compiler EXCEPT !.calls = called, !.pc = "return",
                                     !.result = outcome]
               ELSE [compiler EXCEPT !.calls = called, !.next = @ + 1]
    /\ UNCHANGED <<applicationsStore, resumesStore, clock, response>>

\* The list is exhausted: `return None`.
compile_exhausted ==
    /\ compiler.pc = "loop"
    /\ compiler.next > Len(services)
    /\ compiler' = [compiler EXCEPT !.pc = "return", !.result = NoText]
    /\ UNCHANGED <<applicationsStore, resumesStore, clock, response>>

\* The caller receives the result.
compile_return ==
    /\ compiler.pc = "return"
    /\ response' = [Resp("compile_latex_to_pdf", 0, 0) EXCEPT
                       !.body = compiler.result]
    /\ compiler' = IdleCompiler
    /\ UNCHANGED <<applicationsStore, resumesStore, clock>>

(* ------------------------ AI chat endpoints --------------------------- *)
\* What client.chat.completions.create yields: an exception or a text.
CompletionResults == {Raised, "Thanks. Ready to begin?"}
\* str(e) of the exception of a failed completion call.
CompletionFailure == "Connection error."
\* The modes a chat request names: the two known ones and another.
ChatModes == {"critique", "interview", "review"}
\* resume_id of a chat request: left out (None) or a number.
OptionalResumeIds == {0} \cup ResumeIds

\* `resume.file_data and resume.file_type and 'pdf' in resume.file_type`
HasPdf(row) ==
    Truthy(row.file_data) /\ Truthy(row.file_type)
        /\ row.file_type = "application/pdf"

\* The text the chat services return: the guards on the resume, then the
\* completion call inside `try`, whose exception becomes a text.
ServiceReply(store, resume_id, completion, error_prefix) ==
    IF resume_id \notin DOMAIN store
    THEN "Error: No resume selected. Please select a resume first."
    ELSE IF ~HasPdf(store[resume_id]) /\ ~Truthy(store[resume_id].content)
    THEN "Error: This resume has no content."
    ELSE IF completion = Raised THEN error_prefix \o CompletionFailure
    ELSE completion

critique_resume(store, resume_id, completion) ==
    ServiceReply(store, resume_id, completion, "Error generating critique: ")

start_interview(store, resume_id, completion) ==
    ServiceReply(store, resume_id, completion, "Error starting interview: ")

continue_interview(store, resume_id, completion) ==
    ServiceReply(store, resume_id, completion, "Error continuing interview: ")

rate_answer(completion) ==
    IF completion = Raised THEN "Error rating answer: " \o CompletionFailure
    ELSE completion

\* `except Exception as e: raise HTTPException(500, detail=str(e))` around
\* the whole handler: an HTTPException raised inside is caught as well.
CaughtAs500(op, id, status_code, detail) ==
    [Resp(op, 500, id) EXCEPT !.body = status_code \o ": " \o detail]

chat(resume_id, mode, completion) ==
    /\ response' =
        IF resume_id # 0 /\ resume_id \notin DOMAIN resumes
        THEN CaughtAs500("chat", resume_id, "404", "Resume not found")
        ELSE IF mode = "critique"
        THEN [Resp("chat", 200, resume_id) EXCEPT
                 !.body = critique_resume(resumes, resume_id, completion)]
        ELSE IF mode = "interview"
        THEN [Resp("chat", 200, resume_id) EXCEPT
                 !.body = continue_interview(resumes, resume_id, completion)]
        ELSE CaughtAs500("chat", resume_id, "400", "Invalid mode")
    /\ UNCHANGED <<applicationsStore, resumesStore, compiler, clock>>

get_resume_critique(resume_id, completion) ==
    /\ response' =
        IF resume_id \notin DOMAIN resumes
        THEN CaughtAs500("get_resume_critique", resume_id, "404",
                         "Resume not found")
        ELSE [Resp("get_resume_critique", 200, resume_id) EXCEPT
                 !.body = critique_resume(resumes, resume_id, completion)]
    /\ UNCHANGED <<applicationsStore, resumesStore, compiler, clock>>

start_technical_interview(resume_id, completion) ==
    /\ response' =
        IF resume_id \notin DOMAIN resumes
        THEN CaughtAs500("start_technical_interview", resume_id, "404",
                         "Resume not found")
        ELSE [Resp("start_technical_interview", 200, resume_id) EXCEPT
                 !.body = start_interview(resumes, resume_id, completion)]
    /\ UNCHANGED <<applicationsStore, resumesStore, compiler, clock>>

rate_interview_answer(resume_id, completion) ==
    /\ response' = [Resp("rate_interview_answer", 200, resume_id) EXCEPT
                       !.body = rate_answer(completion)]
    /\ UNCHANGED <<applicationsStore, resumesStore, compiler, clock>>

(* ------------- set_master_resume, one session per request ------------- *)
IdleSession ==
    [pc |-> "idle", resume_id |-> 0, is_master |-> FALSE, existing_master |-> 0]

\* db.query(Resume).filter(Resume.id == resume_id).first()
sm_query_resume(s, resume_id) ==
    /\ sessions[s].pc = "idle"
    /\ IF resume_id \notin DOMAIN resumes
       THEN /\ response' = Resp("set_master_resume", 404, resume_id)
            /\ UNCHANGED sessions
       ELSE /\ sessions' = [sessions EXCEPT ![s] =
                   [pc |-> "resume_loaded", resume_id |-> resume_id,
                    is_master |-> resumes[resume_id].is_master,
                    existing_master |-> 0]]
            /\ UNCHANGED response
    /\ UNCHANGED <<applicationsStore, resumes, clock, compiler>>

\* db.query(Resume).filter(is_master == True, id != resume_id).first()
sm_query_master(s) ==
    /\ sessions[s].pc = "resume_loaded"
    /\ \E existing_master \in
              FirstOrNone(Masters(resumes) \ {sessions[s].resume_id}) :
          sessions' = [sessions EXCEPT ![s].pc = "master_loaded",
                                       ![s].existing_master = existing_master]
    /\ UNCHANGED <<applicationsStore, resumes, clock, response, compiler>>

\* db.commit(); db.refresh(db_resume)
sm_commit(s) ==
    /\ sessions[s].pc = "master_loaded"
    /\ clock < MaxClock
    /\ resumes' = CommitSetMaster(resumes, sessions[s].resume_id,
                      sessions[s].is_master, sessions[s].existing_master,
                      clock)
    /\ clock' = clock + 1
    /\ sessions' = [sessions EXCEPT ![s] = IdleSession]
    /\ response' = ResumeResp("set_master_resume", 200, sessions[s].resume_id,
                              resumes'[sessions[s].resume_id])
    /\ UNCHANGED <<applicationsStore, compiler>>

(* --------------------------- specification ---------------------------- *)
Init ==
    /\ applications = <<>>
    /\ communications = <<>>
    /\ reminders = <<>>
    /\ resumes = <<>>
    /\ sessions = [s \in Sessions |-> IdleSession]
    /\ compiler = IdleCompiler
    /\ clock = 1
    /\ response = [op |-> "startup", code |-> 0, id |-> 0, application_id |-> 0,
                   new_resume_id |-> 0, type |-> NoText, status |-> NoText,
                   updated_at |-> 0, masters |-> {}, body |-> NoText,
                   responses |-> {}, streak |-> 1]

Next ==
    \/ \E s \in AnyStatus : create_application(s)
    \/ \E a \in ApplicationIds, s \in AnyStatus \cup {Unset} :
           update_application(a, s)
    \/ \E a \in ApplicationIds : delete_application(a)
    \/ \E a \in ApplicationIds : get_application(a)
    \/ \E a \in ApplicationIds, t \in AnyType : create_communication(a, t)
    \/ \E c \in CommunicationIds, t \in AnyType \cup {Unset} :
           update_communication(c, t)
    \/ \E c \in CommunicationIds : delete_communication(c)

Spec == Init /\ [][Next]_vars

\* The reminders API next to the requests that store and remove applications.
NextReminders ==
    \/ create_application("Applied")
    \/ \E a \in ApplicationIds : delete_application(a)
    \/ \E a \in AnyApplicationId, b \in BOOLEAN : create_reminder(a, b)
    \/ \E r \in ReminderIds, u \in ReminderUpdates : update_reminder(r, u)
    \/ \E r \in ReminderIds : delete_reminder(r)

SpecReminders == Init /\ [][NextReminders]_vars

\* Uploads whose PDF-to-LaTeX conversion fails, next to the requests that
\* read and change the stored files.
NextAbsorb ==
    \/ get_resumes
    \/ \E m \in BOOLEAN : create_resume(m, "content A", <<>>)
    \/ \E t \in UploadTypes, f \in UploadFiles, m \in BOOLEAN,
          l \in ConversionFailures :
           upload_resume(t, f, m, l)
    \/ \E r \in ResumeIds : get_resume_file(r)
    \/ \E r \in ResumeIds : delete_resume(r)

SpecAbsorb == Init /\ [][NextAbsorb]_vars

\* A store filled by earlier requests: every application id in use, every
\* communication attached to one of the applications, every reminder
\* attached to an application id, stored or not.
InitStored ==
    /\ applications =
           [a \in ApplicationIds |-> [status |-> "Applied", updated_at |-> 0]]
    /\ \E owner \in [CommunicationIds -> ApplicationIds] :
          communications =
              [c \in CommunicationIds |->
                  [application_id |-> owner[c], type |-> "Note"]]
    /\ \E owner \in [ReminderIds -> AnyApplicationId] :
          reminders =
              [r \in ReminderIds |->
                  [application_id |-> owner[r], is_completed |-> FALSE]]
    /\ resumes = <<>>
    /\ sessions = [s \in Sessions |-> IdleSession]
    /\ compiler = IdleCompiler
    /\ clock = 1
    /\ response = [op |-> "startup", code |-> 0, id |-> 0, application_id |-> 0,
                   new_resume_id |-> 0, type |-> NoText, status |-> NoText,
                   updated_at |-> 0, masters |-> {}, body |-> NoText,
                   responses |-> {}, streak |-> 1]

\* The requests that cascade rows of the child tables or attach new ones;
\* child rows leave the store through delete_application only.
NextCascade ==
    \/ \E a \in ApplicationIds : delete_application(a)
    \/ \E a \in ApplicationIds : create_communication(a, "Note")
    \/ \E a \in AnyApplicationId : create_reminder(a, FALSE)

SpecCascade == InitStored /\ [][NextCascade]_vars

\* One application, Applied, and no communication yet.
InitRace ==
    /\ applications = (1 :> [status |-> "Applied", updated_at |-> 0])
    /\ communications = <<>>
    /\ reminders = <<>>
    /\ resumes = <<>>
    /\ sessions = [s \in Sessions |-> IdleRequest]
    /\ compiler = IdleCompiler
    /\ clock = 1
    /\ response = [op |-> "startup", code |-> 0, id |-> 0, application_id |-> 0,
                   new_resume_id |-> 0, type |-> NoText, status |-> NoText,
                   updated_at |-> 0, masters |-> {}, body |-> NoText,
                   responses |-> {}, streak |-> 1]

\* create_communication requests in concurrent sessions, and readers of the
\* tracking summary.
NextRace ==
    \/ \E s \in Sessions, a \in ApplicationIds, t \in TYPES :
           cc_query_application(s, a, t)
    \/ \E s \in Sessions : cc_commit_communication(s)
    \/ \E s \in Sessions : cc_query_status(s)
    \/ \E s \in Sessions : cc_commit_status(s)
    \/ \E a \in ApplicationIds : get_response_tracking_summary(a)

SpecRace == InitRace /\ [][NextRace]_vars

\* The resumes API served one request after the other, with every input
\* that bears on the master flag: all eight writing operations, the inputs
\* that only fill other columns fixed to one value each.
NextMaster ==
    \/ get_resumes
    \/ \E m \in BOOLEAN : create_resume(m, "content A", <<>>)
    \/ \E t \in UploadTypes, f \in UploadFiles, m \in BOOLEAN :
           upload_resume(t, f, m, "\\documentclass{article}")
    \/ \E r \in ResumeIds : update_resume_file(r, "\\documentclass{edited}")
    \/ \E r \in ResumeIds : set_master_resume(r)
    \/ \E r \in ResumeIds : unset_master_resume(r)
    \/ \E r \in ResumeIds : update_resume(r, "content B")
    \/ \E r \in ResumeIds : delete_resume(r)
    \/ \E r \in ResumeIds, p \in CompileResults :
           apply_template(r, "template-1", "\\documentclass{blended}", p, TRUE)

SpecMaster == Init /\ [][NextMaster]_vars

\* The requests that write content and version_history, with every content
\* and every client history.
NextVersions ==
    \/ \E c \in Contents, h \in ClientHistories : create_resume(FALSE, c, h)
    \/ \E l \in ConversionResults :
           upload_resume("application/pdf", "%PDF-small", FALSE, l)
    \/ \E r \in ResumeIds, c \in Contents \cup {Unset, Null} :
           update_resume(r, c)
    \/ \E r \in ResumeIds : delete_resume(r)
    \/ \E r \in ResumeIds :
           apply_template(r, "template-1", "\\documentclass{blended}",
                          "%PDF-compiled", TRUE)

SpecVersions == Init /\ [][NextVersions]_vars

\* The requests that write latex_content and derive resumes from templates,
\* with every outcome of the conversion, blending and compilation gateways.
NextTemplates ==
    \/ \E c \in Contents : create_resume(FALSE, c, <<>>)
    \/ \E t \in UploadTypes, l \in ConversionResults :
           upload_resume(t, "%PDF-small", FALSE, l)
    \/ \E r \in ResumeIds, l \in LatexTexts : update_resume_file(r, l)
    \/ \E r \in ResumeIds : delete_resume(r)
    \/ \E r \in ResumeIds, t \in TemplateIds, b \in BlendResults,
          p \in CompileResults, w \in BOOLEAN : apply_template(r, t, b, p, w)

SpecTemplates == Init /\ [][NextTemplates]_vars

\* The chat endpoints over a store of resumes with and without content,
\* with every outcome of the completion call.
NextAi ==
    \/ \E c \in Contents : create_resume(FALSE, c, <<>>)
    \/ upload_resume("application/pdf", "%PDF-small", FALSE, NoText)
    \/ \E r \in ResumeIds : delete_resume(r)
    \/ \E r \in OptionalResumeIds, m \in ChatModes, o \in CompletionResults :
           chat(r, m, o)
    \/ \E r \in ResumeIds, o \in CompletionResults : get_resume_critique(r, o)
    \/ \E r \in ResumeIds, o \in CompletionResults :
           start_technical_interview(r, o)
    \/ \E r \in OptionalResumeIds, o \in CompletionResults :
           rate_interview_answer(r, o)

SpecAi == Init /\ [][NextAi]_vars

\* apply_template with its debug log writable and every outcome of the
\* blending and compilation gateways, on resumes with and without LaTeX.
NextBlend ==
    \/ \E l \in ConversionResults :
           upload_resume("application/pdf", "%PDF-small", FALSE, l)
    \/ \E r \in ResumeIds, l \in LatexTexts : update_resume_file(r, l)
    \/ \E r \in ResumeIds : delete_resume(r)
    \/ \E r \in ResumeIds, b \in BlendResults, p \in CompileResults :
           apply_template(r, "template-1", b, p, TRUE)

SpecBlend == Init /\ [][NextBlend]_vars

\* compile_latex_to_pdf invoked again and again, with every outcome of
\* every service call.
NextCompile ==
    \/ \E l \in LatexSources : compile_entry(l)
    \/ \E o \in UNION {ServiceOutcomes(services[i]) : i \in DOMAIN services} :
           compile_try_service(o)
    \/ compile_exhausted
    \/ compile_return

SpecCompile == Init /\ [][NextCompile]_vars

\* The requests that store and serve the attached file, with every declared
\* content type and every body.
NextFiles ==
    \/ create_resume(FALSE, "content A", <<>>)
    \/ \E t \in UploadTypes, f \in UploadFiles, l \in ConversionResults :
           upload_resume(t, f, FALSE, l)
    \/ \E r \in ResumeIds : get_resume_file(r)
    \/ \E r \in ResumeIds, l \in LatexTexts : update_resume_file(r, l)
    \/ \E r \in ResumeIds : delete_resume(r)

SpecFiles == Init /\ [][NextFiles]_vars

\* A store of resumes created earlier, at most one of them the master.
InitConcurrent ==
    /\ applications = <<>>
    /\ communications = <<>>
    /\ reminders = <<>>
    /\ \E m \in {0} \cup ResumeIds, c \in Contents :
          resumes = [r \in ResumeIds |->
                        ResumeRow(r = m, 0, c, <<>>, NoText, NoText, NoText, 0)]
    /\ sessions = [s \in Sessions |-> IdleSession]
    /\ compiler = IdleCompiler
    /\ clock = 1
    /\ response = [op |-> "startup", code |-> 0, id |-> 0, application_id |-> 0,
                   new_resume_id |-> 0, type |-> NoText, status |-> NoText,
                   updated_at |-> 0, masters |-> {}, body |-> NoText,
                   responses |-> {}, streak |-> 1]

\* set-master requests in concurrent sessions, and readers of the store.
NextConcurrent ==
    \/ \E s \in Sessions, r \in ResumeIds : sm_query_resume(s, r)
    \/ \E s \in Sessions : sm_query_master(s)
    \/ \E s \in Sessions : sm_commit(s)
    \/ get_resumes

SpecConcurrent == InitConcurrent /\ [][NextConcurrent]_vars

(* ===================== properties of the status rule =================== *)
\* The rank table and the target mapping as the specification states them.
Rank(s) ==
    CASE s = "Rejected" -> 0
      [] s = "Applied" -> 1
      [] s = "Interview" -> 2
      [] s = "Offer" -> 3

Target(x) ==
    CASE x = "Interview Invite" -> "Interview"
      [] x = "Rejection" -> "Rejected"
      [] x = "Offer" -> "Offer"
      [] OTHER -> NoText

deriveStatus(S, X) ==
    IF Target(X) # NoText /\ (Target(X) = "Rejected" \/ Rank(Target(X)) > Rank(S))
    THEN Target(X)
    ELSE S

\* The step just taken is a successful create_communication for application a.
CreatedCommunicationFor(a) ==
    /\ response'.op = "create_communication"
    /\ response'.code = 201
    /\ response'.application_id = a

\* C1: for every application with status S among the four statuses and every
\* communication type X among the five types, a successful
\* create_communication leaves the application's status equal to
\* deriveStatus(S, X) of the rank table.
C1_CreateDerivesStatus ==
    [][\A a \in DOMAIN applications :
          (/\ CreatedCommunicationFor(a)
           /\ applications[a].status \in STATUSES
           /\ response'.type \in TYPES)
          => /\ a \in DOMAIN applications'
             /\ applications'[a].status =
                    deriveStatus(applications[a].status, response'.type)]_vars

\* C1 witness: an Offer communication was just created and the rule applied
\* it (the application is Offer, stamped by this request).
C1_Witness ==
    /\ response.op = "create_communication"
    /\ response.code = 201
    /\ response.type = "Offer"
    /\ response.application_id \in DOMAIN applications
    /\ applications[response.application_id].status = "Offer"
    /\ applications[response.application_id].updated_at = clock - 1

\* C2: rejection always wins: creating a Rejection communication for an
\* application whose status is not Rejected leaves it Rejected, however far
\* the application had advanced.
C2_RejectionAlwaysWins ==
    [][\A a \in DOMAIN applications :
          (/\ CreatedCommunicationFor(a)
           /\ response'.type = "Rejection"
           /\ applications[a].status # "Rejected")
          => /\ a \in DOMAIN applications'
             /\ applications'[a].status = "Rejected"]_vars

\* C2 witness: a Rejection was just created for an application that had
\* already received an Offer communication, and the application is Rejected.
C2_Witness ==
    /\ response.op = "create_communication"
    /\ response.code = 201
    /\ response.type = "Rejection"
    /\ response.application_id \in DOMAIN applications
    /\ applications[response.application_id].status = "Rejected"
    /\ \E c \in DOMAIN communications :
          /\ communications[c].application_id = response.application_id
          /\ communications[c].type = "Offer"

\* C3: a communication creation or a communication edit whose type is not
\* Rejection never lowers the rank of any application's status, so no
\* sequence of such steps reverses Applied -> Interview -> Offer.
C3_NoBackwardProgression ==
    [][(/\ response'.op \in {"create_communication", "update_communication"}
        /\ response'.type # "Rejection")
       => \A a \in DOMAIN applications :
             applications[a].status \in STATUSES
             => /\ a \in DOMAIN applications'
                /\ applications'[a].status \in STATUSES
                /\ Rank(applications'[a].status) >= Rank(applications[a].status)]_vars

\* C3 witness: an Interview Invite was just created for an application that
\* is Offer, and it stays Offer.
C3_Witness ==
    /\ response.op = "create_communication"
    /\ response.code = 201
    /\ response.type = "Interview Invite"
    /\ response.application_id \in DOMAIN applications
    /\ applications[response.application_id].status = "Offer"

\* C4: the scenario of the response-tracking test: an Interview Invite
\* created for an Applied application makes it Interview with a changed
\* updated_at, a Rejection created for the Interview application makes it
\* Rejected, and a GET of the application returns the stored status and
\* updated_at.
C4_TrackingScenario ==
    [][\A a \in DOMAIN applications :
          /\ (/\ CreatedCommunicationFor(a)
              /\ response'.type = "Interview Invite"
              /\ applications[a].status = "Applied")
             => /\ applications'[a].status = "Interview"
                /\ applications'[a].updated_at # applications[a].updated_at
          /\ (/\ CreatedCommunicationFor(a)
              /\ response'.type = "Rejection"
              /\ applications[a].status = "Interview")
             => applications'[a].status = "Rejected"
          /\ (/\ response'.op = "get_application"
              /\ response'.id = a)
             => /\ response'.code = 200
                /\ response'.status = applications[a].status
                /\ response'.updated_at = applications[a].updated_at]_vars

\* C4 witness: the GET that ends the scenario: the application holds an
\* Interview Invite and a later Rejection, and the GET shows Rejected.
C4_Witness ==
    /\ response.op = "get_application"
    /\ response.code = 200
    /\ response.status = "Rejected"
    /\ \E c1, c2 \in DOMAIN communications :
          /\ c1 < c2
          /\ communications[c1].application_id = response.id
          /\ communications[c2].application_id = response.id
          /\ communications[c1].type = "Interview Invite"
          /\ communications[c2].type = "Rejection"

(* =================== properties of the resume lineage ================== *)
\* C5: after any sequence of resume operations served one after the other,
\* starting from an empty store, at most one resume has is_master = true.
C5_AtMostOneMaster ==
    \A r1, r2 \in DOMAIN resumes :
        resumes[r1].is_master /\ resumes[r2].is_master => r1 = r2

\* C5 witness: a resume was just created as master while another resume was
\* the master: the other one was cleared by this request.
C5_Witness ==
    /\ response.op = "create_resume"
    /\ response.code = 201
    /\ response.masters = {response.id}
    /\ \E r \in DOMAIN resumes :
          /\ r # response.id
          /\ ~resumes[r].is_master
          /\ resumes[r].updated_at = clock - 1

\* C6: set_master_resume(id) called twice in a row on an existing resume:
\* the second call leaves the set of masters as the first call left it, and
\* that set holds the resume alone.
C6_SetMasterIdempotent ==
    [][(/\ response.op = "set_master_resume"
        /\ response.code = 200
        /\ response'.op = "set_master_resume"
        /\ response'.code = 200
        /\ response'.id = response.id)
       => /\ Masters(resumes') = Masters(resumes)
          /\ Masters(resumes') = {response.id}
          /\ Cardinality(Masters(resumes')) = 1]_vars

\* C6 witness: the second of two set_master_resume calls in a row on the
\* same stored resume has been answered, and that resume is the master.
C6_Witness ==
    /\ response.op = "set_master_resume"
    /\ response.code = 200
    /\ response.streak = 2
    /\ response.id \in DOMAIN resumes
    /\ Masters(resumes) = {response.id}

\* C7: with set_master_resume requests running concurrently, each in its own
\* session, no reader observes a committed state with two masters.
C7_NoReaderSeesTwoMasters ==
    response.op = "get_resumes" => Cardinality(response.masters) <= 1

\* C8 as claimed, for the states with at least one resume stored: exactly
\* one resume is the master.
C8_ExactlyOneMaster ==
    DOMAIN resumes # {} => Cardinality(Masters(resumes)) = 1

\* C8 amended: in every reachable state at most one resume is the master,
\* and exactly one (the resume answered) right after a request that set one:
\* set-master, or a create or upload with is_master = true.
C8_AtMostOneMasterOneAfterSetting ==
    /\ Cardinality(Masters(resumes)) \in {0, 1}
    /\ (/\ response.op \in {"set_master_resume", "create_resume", "upload_resume"}
        /\ response.code \in {200, 201}
        /\ response.masters # {})
       => Masters(resumes) = {response.id}

\* C8 witness: unset-master has just left a store that holds resumes without
\* any master.
C8_Witness ==
    /\ response.op = "unset_master_resume"
    /\ response.code = 200
    /\ DOMAIN resumes # {}
    /\ Masters(resumes) = {}

\* C9: an update_resume that changes the content of a resume whose content was
\* non-empty leaves in the store the prior version_history with exactly one
\* entry appended, whose content is the content before the update.
C9_UpdateAppendsPreImage ==
    [][\A r \in DOMAIN resumes :
          (/\ response'.op = "update_resume"
           /\ response'.code = 200
           /\ response'.id = r
           /\ Truthy(resumes[r].content)
           /\ resumes'[r].content # resumes[r].content)
          => LET before == resumes[r].version_history
                 after == resumes'[r].version_history
             IN  /\ Len(after) = Len(before) + 1
                 /\ SubSeq(after, 1, Len(before)) = before
                 /\ after[Len(after)].content = resumes[r].content]_vars

\* C10: apply_template on a resume whose latex_content is empty or null is
\* answered with an error (400) and leaves the resumes table as it was.
C10_ApplyTemplateNeedsLatex ==
    [][\A r \in DOMAIN resumes :
          (/\ response'.op = "apply_template"
           /\ response'.id = r
           /\ ~Truthy(resumes[r].latex_content))
          => /\ response'.code = 400
             /\ resumes' = resumes]_vars

\* C10 witness: apply_template with a registered template has just been
\* refused for a stored resume whose latex_content is empty.
C10_Witness ==
    /\ response.op = "apply_template"
    /\ response.code = 400
    /\ response.type \in available_templates
    /\ response.id \in DOMAIN resumes
    /\ ~Truthy(resumes[response.id].latex_content)

(* ==================== properties of the attached file ================== *)
\* C11: round trip: a GET of /resumes/{id}/file that directly follows the
\* successful upload of a file with bytes B and declared content type T as
\* resume id is answered 200 with exactly the bytes B and media type T.
C11_UploadRoundTrip ==
    [][(/\ response.op = "upload_resume"
        /\ response.code = 201
        /\ response'.op = "get_resume_file"
        /\ response'.id = response.id)
       => /\ response'.code = 200
          /\ response'.body = response.body
          /\ response'.type = response.type]_vars

(* ================= properties of the application's children ============ *)
\* Every stored communication refers to a stored application.
CommunicationsReferToApplications(comms, apps) ==
    \A c \in DOMAIN comms : comms[c].application_id \in DOMAIN apps

\* C12: with requests served one after the other, every stored
\* communication's application_id refers to a stored application after every
\* request: create_communication for a missing application is answered 404
\* and stores nothing, no request changes the application_id of a stored
\* communication, and delete_application leaves no communication of the
\* deleted application behind.
C12_CommunicationRefersToApplication ==
    [][/\ CommunicationsReferToApplications(communications', applications')
       /\ (response'.op = "create_communication" /\ response'.code = 404)
           => communications' = communications
       /\ response'.op = "update_communication"
           => /\ DOMAIN communications' = DOMAIN communications
              /\ \A c \in DOMAIN communications :
                     communications'[c].application_id =
                         communications[c].application_id
       /\ (response'.op = "delete_application" /\ response'.code = 204)
           => \A c \in DOMAIN communications' :
                 communications'[c].application_id # response'.id]_vars

\* C12 witness: create_communication has just been refused for a missing
\* application while the store holds communications, all of stored
\* applications.
C12_Witness ==
    /\ response.op = "create_communication"
    /\ response.code = 404
    /\ DOMAIN communications # {}
    /\ CommunicationsReferToApplications(communications, applications)

\* C13: delete_application removes the application with all of its
\* communications and reminders, and leaves every other application and
\* every communication and reminder of other applications as they were.
C13_DeleteCascades ==
    [][(response'.op = "delete_application" /\ response'.code = 204)
       => LET a == response'.id IN
          /\ a \in DOMAIN applications
          /\ DOMAIN applications' = DOMAIN applications \ {a}
          /\ \A b \in DOMAIN applications' : applications'[b] = applications[b]
          /\ DOMAIN communications' =
                 {c \in DOMAIN communications :
                     communications[c].application_id # a}
          /\ \A c \in DOMAIN communications' :
                 communications'[c] = communications[c]
          /\ DOMAIN reminders' =
                 {r \in DOMAIN reminders : reminders[r].application_id # a}
          /\ \A r \in DOMAIN reminders' : reminders'[r] = reminders[r]]_vars

\* C13 witness: delete_application has just removed an application with a
\* reminder and a communication of its own (an id of each table is free
\* again), and a reminder and a communication of another stored application
\* are still there.
C13_Witness ==
    /\ response.op = "delete_application"
    /\ response.code = 204
    /\ DOMAIN reminders # ReminderIds
    /\ DOMAIN communications # CommunicationIds
    /\ \E r \in DOMAIN reminders : reminders[r].application_id \in DOMAIN applications
    /\ \E c \in DOMAIN communications :
          communications[c].application_id \in DOMAIN applications

(* ===================== properties of the PDF compiler ================== *)
\* A service call produced a PDF: it returned a non-empty body.
ProducedPdf(call) == call.outcome # Raised /\ Truthy(call.outcome)

\* C14 as claimed: compile_latex_to_pdf calls the services in the fixed
\* order, each at most once; it calls the second only if the first returned
\* null or raised; it returns the result of the first service that
\* succeeds, and null exactly when every service returned null or raised;
\* it never raises.
C14_SecondOnlyAfterNullOrRaise ==
    LET calls == compiler.calls
        Failed(call) == call.outcome \in {NoText, Raised}
    IN
    /\ compiler.pc # "raised"
    /\ Len(calls) <= Len(services)
    /\ \A i \in DOMAIN calls : calls[i].service = services[i]
    /\ \A i \in DOMAIN calls : i < Len(calls) => Failed(calls[i])
    /\ compiler.pc = "return"
       => /\ calls # <<>>
          /\ ~Failed(calls[Len(calls)])
                 => compiler.result = calls[Len(calls)].outcome
          /\ compiler.result = NoText
                 <=> /\ Len(calls) = Len(services)
                     /\ \A i \in DOMAIN calls : Failed(calls[i])

\* C14 amended: compile_latex_to_pdf calls the services in the fixed order
\* latexonline first, ytotech second, each at most once per invocation; it
\* calls the second only if the first produced no PDF (it returned null or
\* an empty body, or raised); it returns the result of the first service
\* that produced a PDF, and null exactly when both were called and neither
\* produced one; it never raises.
C14_CompileTriesServicesInOrder ==
    LET calls == compiler.calls IN
    /\ compiler.pc # "raised"
    /\ Len(calls) <= Len(services)
    /\ \A i \in DOMAIN calls : calls[i].service = services[i]
    /\ \A i \in DOMAIN calls : i < Len(calls) => ~ProducedPdf(calls[i])
    /\ compiler.pc = "return"
       => /\ calls # <<>>
          /\ ProducedPdf(calls[Len(calls)])
                 => compiler.result = calls[Len(calls)].outcome
          /\ compiler.result = NoText
                 <=> /\ Len(calls) = Len(services)
                     /\ \A i \in DOMAIN calls : ~ProducedPdf(calls[i])

\* C14 witness: the function is about to return the PDF of the second
\* service after the first one answered with an empty body.
C14_Witness ==
    /\ compiler.pc = "return"
    /\ Len(compiler.calls) = 2
    /\ compiler.calls[1].outcome = ""
    /\ compiler.calls[2].service = "_compile_with_ytotech"
    /\ compiler.result = "%PDF by _compile_with_ytotech"

(* =================== properties of the gateway results ================= *)
\* C15: with the template registered and the debug log writable (so that a
\* null result of the blending gateway is the only failure left past the
\* checks of the request), apply_template treats a null blend result as
\* "feature unavailable" and continues: the request is never answered with
\* a server error.
C15_NullBlendNotFatal ==
    response.op = "apply_template" => response.code < 500

(* ==================== properties of the AI endpoints =================== *)
\* C16: a request to /ai/chat, /ai/critique-resume or /ai/start-interview
\* that names a resume_id for which no resume is stored is answered with
\* status 404 and no other error status.
C16_MissingResumeIs404 ==
    (/\ response.op \in {"chat", "get_resume_critique",
                          "start_technical_interview"}
     /\ response.id # 0
     /\ response.id \notin DOMAIN resumes)
    => response.code = 404

\* The texts a chat service returns when its completion call raised.
CompletionErrorTexts ==
    {prefix \o CompletionFailure :
        prefix \in {"Error generating critique: ", "Error starting interview: ",
                    "Error continuing interview: ", "Error rating answer: "}}

\* C17: when the completion call fails while /ai/chat, /ai/critique-resume,
\* /ai/start-interview or /ai/rate-answer is served, the endpoint answers
\* with status 500 carrying the failure message, never with a success
\* response carrying it.
C17_CompletionFailureIs500 ==
    (/\ response.op \in {"chat", "get_resume_critique",
                          "start_technical_interview", "rate_interview_answer"}
     /\ response.body \in CompletionErrorTexts)
    => response.code = 500

(* ====================== properties of the uploads ====================== *)
\* C18: upload_resume answers 400 to a file whose declared content type is
\* outside the allow-list or whose size exceeds 10 MB, and an upload
\* answered 400 creates no resume and changes no stored resume (the master
\* flag included, whatever is_master asked for).
C18_RefusedUploadChangesNothing ==
    [][response'.op = "upload_resume"
       => /\ (\/ response'.type \notin valid_types
              \/ FileSize(response'.body) > 10 * 1024 * 1024)
             => response'.code = 400
          /\ response'.code = 400 => resumes' = resumes]_vars

\* C18 witness: an upload of a file beyond the size limit, of an allowed
\* type, has just been refused while the store holds a master resume.
C18_Witness ==
    /\ response.op = "upload_resume"
    /\ response.code = 400
    /\ response.type \in valid_types
    /\ FileSize(response.body) > UploadLimit
    /\ Masters(resumes) # {}

(* ================= frame of the communication endpoints ================ *)
\* The status rule does not apply to type X at status S: X maps to no
\* status, or its target is not Rejected and does not outrank S.
RuleDoesNotApply(S, X) ==
    \/ Target(X) = NoText
    \/ Target(X) # "Rejected" /\ Rank(Target(X)) <= Rank(S)

\* C19: a successful create_communication whose type maps to no status
\* (Note, Follow-up), or whose target is not Rejected and does not strictly
\* outrank the application's status, leaves the application's status and
\* updated_at as they were.
C19_CreateWritesOnlyWhenRuleApplies ==
    [][\A a \in DOMAIN applications :
          (/\ CreatedCommunicationFor(a)
           /\ applications[a].status \in STATUSES
           /\ RuleDoesNotApply(applications[a].status, response'.type))
          => /\ a \in DOMAIN applications'
             /\ applications'[a].status = applications[a].status
             /\ applications'[a].updated_at = applications[a].updated_at]_vars

\* C19 witness: an Interview Invite has just been created for an application
\* that is already Interview, and the application was not stamped by this
\* request.
C19_Witness ==
    /\ response.op = "create_communication"
    /\ response.code = 201
    /\ response.type = "Interview Invite"
    /\ response.application_id \in DOMAIN applications
    /\ applications[response.application_id].status = "Interview"
    /\ applications[response.application_id].updated_at < clock - 1

\* C20: update_communication re-runs the status rule only if the update
\* changed the communication's type: a PATCH answered 200 that leaves the
\* type out, or sends the type the communication already has, leaves the
\* status and updated_at of every application as they were.
C20_UpdateRerunsRuleOnlyOnTypeChange ==
    [][\A c \in DOMAIN communications :
          (/\ response'.op = "update_communication"
           /\ response'.code = 200
           /\ response'.id = c
           /\ response'.type \in {Unset, communications[c].type})
          => applications' = applications]_vars

\* C21: when update_communication changes a communication's type, the
\* status rule is applied with the new type to the status the application
\* has at that moment, and nothing is undone: the application's status
\* becomes deriveStatus(current status, new type), so an Interview Invite
\* edited into a Note leaves Interview at Interview and a Note edited into
\* an Offer on an Interview application yields Offer.
C21_UpdateAppliesNewTypeToCurrentStatus ==
    [][\A c \in DOMAIN communications :
          LET a == communications[c].application_id IN
          (/\ response'.op = "update_communication"
           /\ response'.code = 200
           /\ response'.id = c
           /\ response'.type \notin {Unset, communications[c].type}
           /\ a \in DOMAIN applications
           /\ applications[a].status \in STATUSES)
          => /\ communications'[c].type = response'.type
             /\ applications'[a].status =
                    deriveStatus(applications[a].status, response'.type)
             /\ \A b \in DOMAIN applications \ {a} :
                    applications'[b] = applications[b]]_vars

\* C21 witness: a communication has just been edited into an Offer and the
\* rule made its application Offer in this request.
C21_Witness ==
    /\ response.op = "update_communication"
    /\ response.code = 200
    /\ response.type = "Offer"
    /\ response.id \in DOMAIN communications
    /\ communications[response.id].type = "Offer"
    /\ response.application_id \in DOMAIN applications
    /\ applications[response.application_id].status = "Offer"
    /\ applications[response.application_id].updated_at = clock - 1

(* ============ create_communication under concurrent requests =========== *)
\* The status after the requests for types X and Y ran one after the other
\* on an application of status S.
SerialResult(S, X, Y) == deriveStatus(deriveStatus(S, X), Y)

\* C22: status derivation is not serialised: the status a
\* create_communication request commits is the target of its type, decided
\* on the status the request read, whatever was committed in between; so a
\* lost update is reachable in which the final status differs from the
\* result of every serial order of two requests (the witness).
C22_StatusDecidedOnStaleRead ==
    [][\A s \in Sessions :
          (sessions[s].pc = "decided" /\ sessions'[s].pc = "idle")
          => LET a == sessions[s].application_id IN
             /\ applications'[a].status =
                    deriveStatus(sessions[s].status, sessions[s].type)
             /\ applications'[a].status = Target(sessions[s].type)]_vars

\* C22 witness: two requests for the Applied application have both been
\* served, no request is in flight, and the status differs from the result
\* of both serial orders of the two.
C22_Witness ==
    /\ \A s \in Sessions : sessions[s].pc = "idle"
    /\ DOMAIN communications = {1, 2}
    /\ communications[1].application_id = 1
    /\ communications[2].application_id = 1
    /\ applications[1].status #
           SerialResult("Applied", communications[1].type, communications[2].type)
    /\ applications[1].status #
           SerialResult("Applied", communications[2].type, communications[1].type)

\* C30: create_communication is atomic towards concurrent observers: no
\* tracking summary read while requests are being served shows a stored
\* Interview Invite, Offer or Rejection for an application that is still
\* Applied (the application was Applied before the first of them, and the
\* rule for any of the three leaves a status other than Applied).
C30_NoObserverSeesCommunicationBeforeStatus ==
    (/\ response.op = "get_response_tracking_summary"
     /\ response.responses # {})
    => response.status # "Applied"

C24_NoSnapshotWithoutContentChange ==
    [][\A r \in DOMAIN resumes :
          (/\ response'.op = "update_resume"
           /\ response'.code = 200
           /\ response'.id = r)
          => /\ resumes'[r].content = resumes[r].content
                => resumes'[r].version_history = resumes[r].version_history
             /\ resumes'[r].version_history # resumes[r].version_history
                => resumes'[r].content # resumes[r].content]_vars

\* C24 witness: a PATCH that left the content alone has just been answered
\* for a resume with content, and its history is the one a client posted
\* with it.
C24_Witness ==
    /\ response.op = "update_resume"
    /\ response.code = 200
    /\ response.id \in DOMAIN resumes
    /\ resumes[response.id].content = "content A"
    /\ resumes[response.id].updated_at = clock - 1
    /\ resumes[response.id].version_history \in ClientHistories \ {<<>>}

\* C25: for every resume, however it was created, version_history holds one
\* entry per update, the content that was live before it: a resume that
\* create_resume, upload_resume or apply_template has just stored has an
\* empty history, and a content-changing update_resume appends the content
\* it replaces.
C25_HistoryHoldsFormerContents ==
    [][/\ (/\ response'.op \in {"create_resume", "upload_resume"}
           /\ response'.code = 201)
          => resumes'[response'.id].version_history = <<>>
       /\ (response'.op = "apply_template" /\ response'.code = 200)
          => resumes'[response'.new_resume_id].version_history = <<>>
       /\ \A r \in DOMAIN resumes :
             (/\ response'.op = "update_resume"
              /\ response'.code = 200
              /\ response'.id = r
              /\ resumes'[r].content # resumes[r].content)
             => resumes'[r].version_history =
                    Append(resumes[r].version_history,
                           HistoryEntry(clock, resumes[r].content))]_vars

\* C26: in every reachable state every stored reminder belongs to a stored
\* application: none is stored for an application_id without an application
\* and none outlives its application.
C26_ReminderBelongsToApplication ==
    \A r \in DOMAIN reminders :
        reminders[r].application_id \in DOMAIN applications

\* C27: in every reachable state the status of every application is one of
\* Applied, Interview, Offer, Rejected.
C27_StatusIsOneOfFour ==
    \A a \in DOMAIN applications : applications[a].status \in STATUSES

\* C28: an upload of a valid PDF whose PDF-to-LaTeX conversion returns null
\* or raises is answered 201; the resume is stored with the file sent, its
\* declared type and the is_master flag the answer reports, and with no
\* latex_content; the rows stored before keep their files and LaTeX.
C28_ConversionFailureAbsorbed ==
    [][(/\ response'.op = "upload_resume"
        /\ response'.type = "application/pdf"
        /\ ~UploadRefused(response'.type, response'.body))
       => /\ response'.code = 201
          /\ response'.id \in DOMAIN resumes' \ DOMAIN resumes
          /\ LET row == resumes'[response'.id] IN
                /\ row.file_data = response'.body
                /\ row.file_type = "application/pdf"
                /\ row.is_master = (response'.id \in response'.masters)
                /\ row.latex_content = NoText
          /\ \A r \in DOMAIN resumes :
                /\ resumes'[r].file_data = resumes[r].file_data
                /\ resumes'[r].latex_content = resumes[r].latex_content]_vars

\* C28 witness: a non-empty PDF uploaded as the master has been answered 201
\* and is stored with its bytes and without LaTeX.
C28_Witness ==
    /\ response.op = "upload_resume"
    /\ response.code = 201
    /\ response.type = "application/pdf"
    /\ Truthy(response.body)
    /\ response.id \in DOMAIN resumes
    /\ resumes[response.id].is_master
    /\ resumes[response.id].file_data = response.body
    /\ resumes[response.id].latex_content = NoText

\* C29: delete_communication removes that communication alone: every
\* application keeps its status and updated_at, also when the communication
\* deleted is one whose type maps to the status its application has, and
\* the other communications stay as they are.
C29_DeleteCommunicationLeavesStatus ==
    [][\A c \in DOMAIN communications :
          (/\ response'.op = "delete_communication"
           /\ response'.code = 204
           /\ response'.id = c)
          => /\ applications' = applications
             /\ communications' = DeleteRow(communications, c)]_vars

\* C29 witness: the one communication of an application has just been
\* deleted and the application still has the status that communication
\* gave it.
C29_Witness ==
    /\ response.op = "delete_communication"
    /\ response.code = 204
    /\ communications = <<>>
    /\ \E a \in DOMAIN applications :
          /\ applications[a].status = "Offer"
          /\ applications[a].updated_at > 1

====
